---- MODULE Spec2Model ----
(***************************************************************************)
(* A model of NanoVNASaver's Marker (src/NanoVNASaver/Marker/Widget.py):   *)
(* the target frequency, the resolved sample index with its neighbour      *)
(* frequencies, the metric labels, the field selection with the two form   *)
(* columns built from it, and the `updated` signal; and of the             *)
(* MarkerSettingsWindow (src/NanoVNASaver/Marker/Settings.py) with its     *)
(* example marker.                                                         *)
(***************************************************************************)
EXTENDS Integers, Sequences, FiniteSets, TLC

VARIABLES
    frequency,          \* Marker.frequency (Hz, 0 = no frequency set)
    location,           \* Marker.location (index into the data, -1 = none)
    nextFrequency,      \* Marker.frequencyInput.nextFrequency
    previousFrequency,  \* Marker.frequencyInput.previousFrequency
    label,              \* Marker.label: field name -> text of its QLabel
    fieldSelection,     \* Marker.fieldSelection
    left_form,          \* rows of Marker.left_form (field names, top down)
    right_form,         \* rows of Marker.right_form
    updated,            \* what the listeners of Marker.updated were handed by the last call
    data,               \* the S11 sweep handed to the last findLocation call
    args,               \* the arguments of the last call
    raised,             \* the exception the last call ended with ("none" when it returned)
    lastOp,             \* the method (of the marker, or handler of the window) called last
    currentFieldSelection,  \* MarkerSettingsWindow.currentFieldSelection
    savedFieldSelection,    \* MarkerSettingsWindow.savedFieldSelection
    model,              \* rows of MarkerSettingsWindow.model when it is not the shown one
    view,               \* rows of the item model fieldSelectionView shows
    attached            \* whether self.model is the model fieldSelectionView shows

vars == <<frequency, location, nextFrequency, previousFrequency, label,
          fieldSelection, left_form, right_form, updated, data, args,
          raised, lastOp, currentFieldSelection, savedFieldSelection,
          model, view, attached>>

\* the fields of the MarkerSettingsWindow
window == <<currentFieldSelection, savedFieldSelection, model, view, attached>>

----------------------------------------------------------------------------
(* Bounds of the model *)

\* the largest sample frequency of a sweep
MaxFreq == 2

\* the largest number of samples of a sweep
MaxLen == 3

----------------------------------------------------------------------------
(* Data *)

Abs(x) == IF x < 0 THEN -x ELSE x

\* RFTools.Datapoint, as far as the marker reads it: the frequency, and the
\* measured coefficient reduced to the port it was measured at.
Datapoint(f, port) == [freq |-> f, port |-> port]

RECURSIVE SweepsFrom(_, _, _)
\* the strictly ascending sweeps of at most n more samples above frequency lo
SweepsFrom(lo, n, port) ==
    IF n = 0 THEN {<<>>}
    ELSE {<<>>} \cup
         UNION {{<<Datapoint(f, port)>> \o s : s \in SweepsFrom(f + 1, n - 1, port)} :
                f \in lo..MaxFreq}

\* the S11 sweeps a caller hands to findLocation
Sweeps == SweepsFrom(0, MaxLen, "S11")

\* the same sweep measured at the other port
AsS21(d) == [i \in 1..Len(d) |-> Datapoint(d[i].freq, "S21")]

\* the S21 sweeps a caller hands to updateLabels beside the S11 sweep d:
\* none, one of d's length, one a sample shorter
S21Inputs(d) ==
    {<<>>, AsS21(d)} \cup
    (IF Len(d) > 0 THEN {AsS21(SubSeq(d, 1, Len(d) - 1))} ELSE {})

\* the target frequencies a caller sets: 0 (none), those of the samples, and
\* two more above the largest
Targets == 0..(MaxFreq + 2)

\* RFTools.parseFrequency on a text that is a plain number of Hz
parseFrequency(f) == f

----------------------------------------------------------------------------
(* LABELS, default_field_names *)

Field(fieldname, name, description, default_active) ==
    [fieldname |-> fieldname, name |-> name, description |-> description,
     default_active |-> default_active]

LABELS == <<
    Field("actualfreq", "Frequency", "Actual frequency", TRUE),
    Field("impedance", "Impedance", "Impedance", TRUE),
    Field("admittance", "Admittance", "Admittance", FALSE),
    Field("serr", "Series R", "Series R", FALSE),
    Field("serlc", "Series X", "Series equivalent L/C", FALSE),
    Field("serl", "Series L", "Series equivalent L", TRUE),
    Field("serc", "Series C", "Series equivalent C", TRUE),
    Field("parr", "Parallel R", "Parallel R", TRUE),
    Field("parlc", "Parallel X", "Parallel equivalent L/C", TRUE),
    Field("parl", "Parallel L", "Parallel equivalent L", FALSE),
    Field("parc", "Parallel C", "Parallel equivalent C", FALSE),
    Field("vswr", "VSWR", "VSWR", TRUE),
    Field("returnloss", "Return loss", "Return loss", TRUE),
    Field("s11q", "Quality factor", "S11 Quality factor", TRUE),
    Field("s11phase", "S11 Phase", "S11 Phase", TRUE),
    Field("s11groupdelay", "S11 Group Delay", "S11 Group Delay", FALSE),
    Field("s21gain", "S21 Gain", "S21 Gain", TRUE),
    Field("s21phase", "S21 Phase", "S21 Phase", TRUE),
    Field("s21groupdelay", "S21 Group Delay", "S21 Group Delay", FALSE) >>

\* the keys of Marker.label and of Marker.fields
FieldNames == {LABELS[i].fieldname : i \in 1..Len(LABELS)}

RECURSIVE SelectDefault(_)
SelectDefault(i) ==
    IF i > Len(LABELS) THEN <<>>
    ELSE (IF LABELS[i].default_active THEN <<LABELS[i].fieldname>> ELSE <<>>)
         \o SelectDefault(i + 1)

default_field_names == SelectDefault(1)

\* the field lists a caller hands to setFieldSelection: the defaults, and a
\* short list with a name that is no key of Marker.fields
FieldInputs == {default_field_names, <<"vswr", "nosuchfield", "actualfreq">>}

----------------------------------------------------------------------------
(* Marker.findLocation *)

\* what a findLocation call leaves behind
Found(loc, nxt, prv, exc) ==
    [location |-> loc, nextFrequency |-> nxt, previousFrequency |-> prv,
     raised |-> exc]

RECURSIVE MutScanStrict(_, _, _, _)
\* Scan with the comparison < in place of <=
MutScanStrict(d, f, i, min_distance) ==
    IF i > Len(d)
    THEN Found(Len(d) - 1, -1, d[Len(d) - 1].freq, "none")
    ELSE IF Abs(d[i].freq - f) < min_distance
         THEN MutScanStrict(d, f, i + 1, Abs(d[i].freq - f))
         ELSE Found((i - 1) - 1,
                    IF (i - 1) < Len(d) THEN d[i].freq ELSE -1,
                    IF ((i - 1) - 2) >= 0 THEN d[i - 2].freq ELSE -1,
                    "none")

RECURSIVE Scan(_, _, _, _)
\* the loop of findLocation, about to look at d[i] (the code's data[i-1])
\* with the running min_distance
Scan(d, f, i, min_distance) ==
    IF i > Len(d)
    THEN \* the loop ran out: "it was the last value"
         Found(Len(d) - 1, -1, d[Len(d) - 1].freq, "none")
    ELSE IF Abs(d[i].freq - f) <= min_distance
         THEN Scan(d, f, i + 1, Abs(d[i].freq - f))
         ELSE \* "We have now started moving away from the nearest point"
              Found((i - 1) - 1,
                    IF (i - 1) < Len(d) THEN d[i].freq ELSE -1,
                    IF ((i - 1) - 2) >= 0 THEN d[i - 2].freq ELSE -1,
                    "none")

\* FindLocation without the test self.frequency == 0
MutFindLocationNoZeroTest(f, d) ==
    IF Len(d) = 0 THEN Found(-1, -1, -1, "none")
    ELSE IF Len(d) < 2 THEN Found(-1, -1, -1, "IndexError")
    ELSE IF \/ 2 * f + (d[2].freq - d[1].freq) < 2 * d[1].freq
            \/ 2 * f - (d[Len(d)].freq - d[Len(d) - 1].freq) > 2 * d[Len(d)].freq
         THEN Found(-1, -1, -1, "none")
         ELSE Scan(d, f, 1, d[Len(d)].freq)

\* findLocation with self.frequency = f on the sweep d. data[1] and data[-2]
\* of a one-element list raise IndexError, after the three fields were reset.
\* The halves of the step sizes are compared doubled: f + step/2 < min_freq
\* is 2f + step < 2 min_freq.
FindLocation(f, d) ==
    IF f = 0 THEN Found(-1, -1, -1, "none")
    ELSE IF Len(d) = 0 THEN Found(-1, -1, -1, "none")
    ELSE IF Len(d) < 2 THEN Found(-1, -1, -1, "IndexError")
    ELSE LET min_freq == d[1].freq
             max_freq == d[Len(d)].freq
             lower_stepsize == d[2].freq - d[1].freq
             upper_stepsize == d[Len(d)].freq - d[Len(d) - 1].freq
         IN  IF \/ 2 * f + lower_stepsize < 2 * min_freq
                \/ 2 * f - upper_stepsize > 2 * max_freq
             THEN Found(-1, -1, -1, "none")
             ELSE Scan(d, f, 1, max_freq)

----------------------------------------------------------------------------
(* Marker.resetLabels, Marker.updateLabels *)

\* the text "" of a QLabel
NoText == <<>>

\* the text a formatter of NanoVNASaver.Formatting makes of a quantity of
\* the sample s
Text(formatter, quantity, s) == <<formatter, quantity, s>>

\* the keys updateLabels sets from the S11 sample
S11Keys == {"actualfreq", "impedance", "serr", "serlc", "serc", "serl",
            "admittance", "parr", "parlc", "parc", "parl", "vswr",
            "s11phase", "s11q", "returnloss", "s11groupdelay"}

\* the keys updateLabels sets from the S21 sample
S21Keys == {"s21phase", "s21gain", "s21groupdelay"}

\* the text updateLabels gives key k for the S11 sample s11
S11Text(k, s11) ==
    CASE k = "actualfreq" -> Text("format_frequency", "freq", s11)
      [] k = "impedance" -> Text("format_complex_imp", "imp", s11)
      [] k = "serr" -> Text("format_resistance", "imp.real", s11)
      [] k = "serlc" -> Text("format_capacitance or format_inductance", "imp", s11)
      [] k = "serc" -> Text("format_capacitance", "imp", s11)
      [] k = "serl" -> Text("format_inductance", "imp", s11)
      [] k = "admittance" -> Text("format_complex_imp", "imp_p", s11)
      [] k = "parr" -> Text("format_resistance", "imp_p.real", s11)
      [] k = "parlc" -> Text("format_capacitance or format_inductance", "imp_p", s11)
      [] k = "parc" -> Text("format_capacitance", "imp_p", s11)
      [] k = "parl" -> Text("format_inductance", "imp_p", s11)
      [] k = "vswr" -> Text("format_vswr", "vswr", s11)
      [] k = "s11phase" -> Text("format_phase", "phase", s11)
      [] k = "s11q" -> Text("format_q_factor", "qFactor", s11)
      [] k = "returnloss" -> Text("format_gain", "gain", s11)
      [] k = "s11groupdelay" -> Text("format_group_delay", "groupDelay", s11)

\* the text updateLabels gives key k for the S21 sample s21
S21Text(k, s21) ==
    CASE k = "s21phase" -> Text("format_phase", "phase", s21)
      [] k = "s21gain" -> Text("format_gain", "gain", s21)
      [] k = "s21groupdelay" -> Text("format_group_delay", "groupDelay / 2", s21)

\* resetLabels: every label's text becomes ""
ResetLabels(lbl) == [k \in DOMAIN lbl |-> NoText]

\* what an updateLabels call leaves behind
Labelled(lbl, exc) == [label |-> lbl, raised |-> exc]

\* UpdateLabels that clears the labels of a marker without a location
MutUpdateLabelsClearing(lbl, loc, s11data, s21data) ==
    IF loc = -1 THEN Labelled(ResetLabels(lbl), "none")
    ELSE IF loc >= Len(s11data) THEN Labelled(lbl, "IndexError")
    ELSE LET s11 == s11data[loc + 1]
             withS11 == [k \in DOMAIN lbl |->
                            IF k \in S11Keys THEN S11Text(k, s11) ELSE lbl[k]]
         IN  IF Len(s21data) # Len(s11data)
             THEN Labelled(withS11, "none")
             ELSE Labelled([k \in DOMAIN lbl |->
                               IF k \in S21Keys THEN S21Text(k, s21data[loc + 1])
                               ELSE withS11[k]],
                           "none")

\* UpdateLabels that clears the S21 labels when the lengths differ
MutUpdateLabelsBlankS21(lbl, loc, s11data, s21data) ==
    IF loc = -1 THEN Labelled(lbl, "none")
    ELSE IF loc >= Len(s11data) THEN Labelled(lbl, "IndexError")
    ELSE LET s11 == s11data[loc + 1]
             withS11 == [k \in DOMAIN lbl |->
                            IF k \in S11Keys THEN S11Text(k, s11) ELSE lbl[k]]
         IN  IF Len(s21data) # Len(s11data)
             THEN Labelled([k \in DOMAIN lbl |->
                               IF k \in S21Keys THEN NoText ELSE withS11[k]],
                           "none")
             ELSE Labelled([k \in DOMAIN lbl |->
                               IF k \in S21Keys THEN S21Text(k, s21data[loc + 1])
                               ELSE withS11[k]],
                           "none")

\* updateLabels of a marker with labels lbl and location loc
UpdateLabels(lbl, loc, s11data, s21data) ==
    IF loc = -1 THEN Labelled(lbl, "none")
    ELSE IF loc >= Len(s11data) THEN Labelled(lbl, "IndexError")
    ELSE LET s11 == s11data[loc + 1]
             withS11 == [k \in DOMAIN lbl |->
                            IF k \in S11Keys THEN S11Text(k, s11) ELSE lbl[k]]
         IN  IF Len(s21data) # Len(s11data)
             THEN \* "skip if no valid s21 data"
                  Labelled(withS11, "none")
             ELSE LET s21 == s21data[loc + 1]
                  IN  Labelled([k \in DOMAIN lbl |->
                                   IF k \in S21Keys THEN S21Text(k, s21)
                                   ELSE withS11[k]],
                               "none")

----------------------------------------------------------------------------
(* Marker.buildForm *)

\* the rows buildForm adds for the fields sel[from..to]: those that are keys
\* of self.fields
RECURSIVE Rows(_, _, _)
Rows(sel, from, to) ==
    IF from > to THEN <<>>
    ELSE (IF sel[from] \in FieldNames THEN <<sel[from]>> ELSE <<>>)
         \o Rows(sel, from + 1, to)

\* math.ceil(n / 2)
CeilHalf(n) == (n + 1) \div 2

\* the two columns buildForm leaves for the field selection sel
BuildForm(sel) ==
    IF Len(sel) <= 3
    THEN [left |-> Rows(sel, 1, Len(sel)), right |-> <<>>]
    ELSE LET left_half == CeilHalf(Len(sel))
             right_half == Len(sel)
         IN  [left |-> Rows(sel, 1, left_half),
              right |-> Rows(sel, left_half + 1, right_half)]

----------------------------------------------------------------------------
(* The marker's operations *)

\* what a listener of `updated` is handed: the marker, as it is at the emit
Emitted(f, loc, nxt, prv, lbl) ==
    [frequency |-> f, location |-> loc, nextFrequency |-> nxt,
     previousFrequency |-> prv, label |-> lbl]

\* Marker.__init__: no location, empty labels, the class's empty
\* fieldSelection, buildForm() on it
Init ==
    /\ frequency \in Targets
    /\ location = -1
    /\ nextFrequency = -1
    /\ previousFrequency = -1
    /\ label = [k \in FieldNames |-> NoText]
    /\ fieldSelection = <<>>
    /\ left_form = BuildForm(<<>>).left
    /\ right_form = BuildForm(<<>>).right
    /\ updated = <<>>
    /\ data = <<>>
    /\ args = <<>>
    /\ raised = "none"
    /\ lastOp = "__init__"
    /\ currentFieldSelection = <<>>
    /\ savedFieldSelection = <<>>
    /\ model = <<>>
    /\ view = <<>>
    /\ attached = FALSE

\* SetFrequencyTo that finds the location in the current sweep before the emit
MutSetFrequencyResolving(f) ==
    /\ frequency' = parseFrequency(f)
    /\ args' = <<f>>
    /\ location' = FindLocation(frequency', data).location
    /\ nextFrequency' = FindLocation(frequency', data).nextFrequency
    /\ previousFrequency' = FindLocation(frequency', data).previousFrequency
    /\ updated' = <<Emitted(frequency', location', nextFrequency',
                            previousFrequency', label)>>
    /\ UNCHANGED label

\* setFrequency(text): parse, then emit updated(self)
SetFrequencyTo(f) ==
    /\ frequency' = parseFrequency(f)
    /\ args' = <<f>>
    /\ updated' = <<Emitted(frequency', location, nextFrequency,
                            previousFrequency, label)>>
    /\ UNCHANGED <<location, nextFrequency, previousFrequency, label>>

setFrequency ==
    /\ \E f \in Targets : SetFrequencyTo(f)
    /\ raised' = "none"
    /\ lastOp' = "setFrequency"
    /\ UNCHANGED <<fieldSelection, left_form, right_form, data>>
    /\ UNCHANGED window

\* findLocation(d)
findLocation ==
    /\ \E d \in Sweeps :
          LET r == FindLocation(frequency, d)
          IN  /\ location' = r.location
              /\ nextFrequency' = r.nextFrequency
              /\ previousFrequency' = r.previousFrequency
              /\ raised' = r.raised
              /\ data' = d
              /\ args' = <<d>>
    /\ updated' = <<>>
    /\ lastOp' = "findLocation"
    /\ UNCHANGED <<frequency, label, fieldSelection, left_form, right_form>>
    /\ UNCHANGED window

\* resetLabels()
resetLabels ==
    /\ label' = ResetLabels(label)
    /\ args' = <<>>
    /\ updated' = <<>>
    /\ raised' = "none"
    /\ lastOp' = "resetLabels"
    /\ UNCHANGED <<frequency, location, nextFrequency, previousFrequency,
                   fieldSelection, left_form, right_form, data>>
    /\ UNCHANGED window

\* updateLabels(data, s21data), on the sweep the location was found in
updateLabels ==
    /\ \E s21data \in S21Inputs(data) :
          LET r == UpdateLabels(label, location, data, s21data)
          IN  /\ label' = r.label
              /\ raised' = r.raised
              /\ args' = <<data, s21data>>
    /\ updated' = <<>>
    /\ lastOp' = "updateLabels"
    /\ UNCHANGED <<frequency, location, nextFrequency, previousFrequency,
                   fieldSelection, left_form, right_form, data>>
    /\ UNCHANGED window

\* SetFieldSelectionTo that ends with self.updated.emit(self)
MutSetFieldSelectionEmitting(fields) ==
    /\ fieldSelection' = fields
    /\ args' = <<fields>>
    /\ left_form' = BuildForm(fieldSelection').left
    /\ right_form' = BuildForm(fieldSelection').right
    /\ updated' = <<Emitted(frequency, location, nextFrequency,
                            previousFrequency, label)>>
    /\ UNCHANGED <<frequency, location, nextFrequency, previousFrequency,
                   label>>

\* setFieldSelection(fields): copy the list, then buildForm()
SetFieldSelectionTo(fields) ==
    /\ fieldSelection' = fields
    /\ args' = <<fields>>
    /\ left_form' = BuildForm(fieldSelection').left
    /\ right_form' = BuildForm(fieldSelection').right
    /\ updated' = <<>>
    /\ UNCHANGED <<frequency, location, nextFrequency, previousFrequency,
                   label>>

setFieldSelection ==
    /\ \E fields \in FieldInputs : SetFieldSelectionTo(fields)
    /\ raised' = "none"
    /\ lastOp' = "setFieldSelection"
    /\ UNCHANGED data
    /\ UNCHANGED window

Next ==
    \/ setFrequency
    \/ findLocation
    \/ resetLabels
    \/ updateLabels
    \/ setFieldSelection

Spec == Init /\ [][Next]_vars

----------------------------------------------------------------------------
(* MarkerSettingsWindow *)

\* the number of rows of the field list, from the top, that the user toggles
MaxToggled == 3

\* the frequency the example marker is made with
ExampleFrequency == 123456000

exampleData11 ==
    <<Datapoint(123000000, "S11"), Datapoint(123500000, "S11"),
      Datapoint(124000000, "S11")>>

exampleData21 ==
    <<Datapoint(123000000, "S21"), Datapoint(123456000, "S21"),
      Datapoint(124000000, "S21")>>

\* the values app.settings holds for "MarkerFields" ("" read as []): the
\* defaults, none, and a list in an order of its own
SavedInputs == {default_field_names, <<>>, <<"vswr", "actualfreq">>}

\* x in seq
Contains(seq, x) == \E i \in 1..Len(seq) : seq[i] = x

RECURSIVE Remove(_, _)
\* list.remove(x): without the first x
Remove(seq, x) ==
    IF seq = <<>> THEN <<>>
    ELSE IF Head(seq) = x THEN Tail(seq)
    ELSE <<Head(seq)>> \o Remove(Tail(seq), x)

\* a checkable QStandardItem: its data() and whether it is checked
Item(fieldname, checked) == [data |-> fieldname, checked |-> checked]

\* the rows an item model gets for the selection sel, one per entry of LABELS
ModelRows(sel) ==
    [i \in 1..Len(LABELS) |->
        Item(LABELS[i].fieldname, Contains(sel, LABELS[i].fieldname))]

RECURSIVE CheckedFrom(_, _)
\* the data() of the checked rows from row i on, top down
CheckedFrom(rows, i) ==
    IF i > Len(rows) THEN <<>>
    ELSE (IF rows[i].checked THEN <<rows[i].data>> ELSE <<>>)
         \o CheckedFrom(rows, i + 1)

\* whether the tuple t unpacks into n names
Unpacks(t, n) == Cardinality(DOMAIN t) = n

\* resetModel with the selection sel while the view shows the rows shown:
\* self.model becomes a new, empty model; each entry of LABELS is unpacked
\* into (fieldname, name, default), which raises ValueError at the first
\* entry that is no 3-tuple, before setModel is reached.
ResetModel(sel, shown) ==
    LET bad == {i \in 1..Len(LABELS) : ~Unpacks(LABELS[i], 3)}
    IN  IF bad = {}
        THEN [model |-> ModelRows(sel), view |-> ModelRows(sel),
              attached |-> TRUE, raised |-> "none"]
        ELSE LET first == CHOOSE i \in bad : \A j \in bad : i <= j
             IN  [model |-> SubSeq(ModelRows(sel), 1, first - 1),
                  view |-> shown, attached |-> FALSE,
                  raised |-> "ValueError"]

\* updateMarker on the example marker with frequency f and labels lbl:
\* setFieldSelection, findLocation, resetLabels, updateLabels
UpdateMarker(sel, f, lbl) ==
    LET found == FindLocation(f, exampleData11)
        labelled == UpdateLabels(ResetLabels(lbl), found.location,
                                 exampleData11, exampleData21)
    IN  [fieldSelection |-> sel,
         form |-> BuildForm(sel),
         found |-> found,
         label |-> IF found.raised = "none" THEN labelled.label ELSE lbl,
         raised |-> IF found.raised = "none" THEN labelled.raised
                    ELSE found.raised]

\* the example marker after updateMarker left m
MarkerBecomes(m) ==
    /\ fieldSelection' = m.fieldSelection
    /\ left_form' = m.form.left
    /\ right_form' = m.form.right
    /\ location' = m.found.location
    /\ nextFrequency' = m.found.nextFrequency
    /\ previousFrequency' = m.found.previousFrequency
    /\ label' = m.label
    /\ data' = exampleData11
    /\ UNCHANGED frequency

\* the example marker when updateMarker was not reached
MarkerUntouched ==
    UNCHANGED <<frequency, location, nextFrequency, previousFrequency, label,
                fieldSelection, left_form, right_form, data>>

\* MarkerSettingsWindow.__init__: the example marker, the saved selection
\* and its copy, the item model of the view, then updateMarker()
InitSettings ==
    /\ \E saved \in SavedInputs :
          /\ savedFieldSelection = saved
          /\ currentFieldSelection = saved
    /\ view = ModelRows(currentFieldSelection)
    /\ model = view
    /\ attached = TRUE
    /\ frequency = parseFrequency(ExampleFrequency)
    /\ LET m == UpdateMarker(currentFieldSelection, frequency,
                             [k \in FieldNames |-> NoText])
       IN  /\ fieldSelection = m.fieldSelection
           /\ left_form = m.form.left
           /\ right_form = m.form.right
           /\ location = m.found.location
           /\ nextFrequency = m.found.nextFrequency
           /\ previousFrequency = m.found.previousFrequency
           /\ label = m.label
           /\ raised = m.raised
    /\ data = exampleData11
    /\ updated = <<>>
    /\ args = <<>>
    /\ lastOp = "__init__"

\* currentFieldSelection after updateField(field), with rows the rows of
\* self.model
UpdateField(field, current, rows) ==
    IF field.checked
    THEN IF ~Contains(current, field.data)
         THEN CheckedFrom(rows, 1)
         ELSE current
    ELSE IF Contains(current, field.data)
         THEN Remove(current, field.data)
         ELSE current

\* the user toggles row i of the shown list: itemChanged, updateField(item)
updateField ==
    /\ \E i \in 1..MaxToggled :
          /\ i <= Len(view)
          /\ LET shown == [view EXCEPT ![i].checked = ~view[i].checked]
                 rows == IF attached THEN shown ELSE model
                 current == UpdateField(shown[i], currentFieldSelection, rows)
                 m == UpdateMarker(current, frequency, label)
             IN  /\ view' = shown
                 /\ model' = rows
                 /\ currentFieldSelection' = current
                 /\ MarkerBecomes(m)
                 /\ raised' = m.raised
                 /\ args' = <<i>>
    /\ lastOp' = "updateField"
    /\ updated' = <<>>
    /\ UNCHANGED <<savedFieldSelection, attached>>

\* applyButtonClick: the current selection becomes the saved one
applyButtonClick ==
    /\ savedFieldSelection' = currentFieldSelection
    /\ MarkerUntouched
    /\ raised' = "none"
    /\ args' = <<>>
    /\ lastOp' = "applyButtonClick"
    /\ updated' = <<>>
    /\ UNCHANGED <<currentFieldSelection, model, view, attached>>

\* the handler sets currentFieldSelection to current, then resetModel(),
\* then updateMarker()
ResetTo(current) ==
    LET r == ResetModel(current, view)
    IN  /\ currentFieldSelection' = current
        /\ model' = r.model
        /\ view' = r.view
        /\ attached' = r.attached
        /\ IF r.raised = "none"
           THEN LET m == UpdateMarker(current, frequency, label)
                IN  MarkerBecomes(m) /\ raised' = m.raised
           ELSE MarkerUntouched /\ raised' = r.raised

\* defaultButtonClick
defaultButtonClick ==
    /\ ResetTo(default_field_names)
    /\ args' = <<>>
    /\ lastOp' = "defaultButtonClick"
    /\ updated' = <<>>
    /\ UNCHANGED savedFieldSelection

\* cancelButtonClick
cancelButtonClick ==
    /\ ResetTo(savedFieldSelection)
    /\ args' = <<>>
    /\ lastOp' = "cancelButtonClick"
    /\ updated' = <<>>
    /\ UNCHANGED savedFieldSelection

NextSettings ==
    \/ updateField
    \/ applyButtonClick
    \/ defaultButtonClick
    \/ cancelButtonClick

SpecSettings == InitSettings /\ [][NextSettings]_vars

----------------------------------------------------------------------------
(* The claims *)

\* the step sizes the margins are halves of; both 0 for a single sample
LowerStep(d) == IF Len(d) >= 2 THEN d[2].freq - d[1].freq ELSE 0
UpperStep(d) == IF Len(d) >= 2 THEN d[Len(d)].freq - d[Len(d) - 1].freq ELSE 0

\* target + lower_margin < samples[0].freq
BelowRange(f, d) == Len(d) >= 1 /\ 2 * f + LowerStep(d) < 2 * d[1].freq

\* target - upper_margin > samples[-1].freq
AboveRange(f, d) == Len(d) >= 1 /\ 2 * f - UpperStep(d) > 2 * d[Len(d)].freq

\* the conditions under which resolution fails
Fails(f, d) == f = 0 \/ d = <<>> \/ BelowRange(f, d) \/ AboveRange(f, d)

\* no sample of d is strictly nearer to f than the one at index k (from 0)
Nearest(f, d, k) ==
    \A j \in 1..Len(d) : Abs(d[j].freq - f) >= Abs(d[k + 1].freq - f)

\* f is as far from d[i] as from d[i + 1]
Tie(f, d, i) ==
    /\ i \in 1..(Len(d) - 1)
    /\ Abs(d[i].freq - f) = Abs(d[i + 1].freq - f)

AllLabelsEmpty(lbl) == \A k \in DOMAIN lbl : lbl[k] = NoText

\* C1: after findLocation on a sweep of at least two samples with a target
\* other than 0 inside the tolerant range, location is an index of the sweep
\* and no sample is strictly nearer to the target than the one at location.
C1_ResolvesToNearest ==
    (/\ lastOp = "findLocation"
     /\ Len(data) >= 2
     /\ frequency # 0
     /\ ~BelowRange(frequency, data)
     /\ ~AboveRange(frequency, data))
    => /\ location \in 0..(Len(data) - 1)
       /\ Nearest(frequency, data, location)

\* C2: after findLocation with target 0, an empty sweep, or a target below
\* or above the tolerant range, location and both neighbour frequencies are
\* -1 and the call did not raise.
C2_UnresolvedOutsideRange ==
    (lastOp = "findLocation" /\ Fails(frequency, data))
    => /\ location = -1
       /\ nextFrequency = -1
       /\ previousFrequency = -1
       /\ raised = "none"

\* C3: findLocation on a sweep of exactly one sample with a target other
\* than 0 does not raise and ends with location -1 or 0.
C3_SingleSampleDoesNotRaise ==
    (lastOp = "findLocation" /\ Len(data) = 1 /\ frequency # 0)
    => /\ raised = "none"
       /\ location \in {-1, 0}

C6_FailureClearsLabels ==
    [][(/\ lastOp = "findLocation"
        /\ Fails(frequency, data)
        /\ lastOp' = "updateLabels")
       => AllLabelsEmpty(label')]_vars

\* C6 as amended: a findLocation that fails leaves location -1 and the labels
\* as they were; updateLabels of a marker without a location leaves the
\* labels as they were; resetLabels empties every label.
C6_OnlyResetClearsLabels ==
    [][/\ lastOp' = "findLocation"
          => /\ label' = label
             /\ Fails(frequency', data') => location' = -1
       /\ (lastOp' = "updateLabels" /\ location = -1)
          => (label' = label /\ location' = -1)
       /\ lastOp' = "resetLabels"
          => (AllLabelsEmpty(label') /\ location' = location)]_vars

\* C6 witness: updateLabels has run on a marker whose resolution failed and
\* whose labels still hold the texts of the earlier resolution.
C6_Witness ==
    /\ lastOp = "updateLabels"
    /\ Fails(frequency, data)
    /\ location = -1
    /\ \A k \in S11Keys : label[k] # NoText

\* C7 as claimed: after updateLabels of a resolved marker with sweeps of
\* unequal length, the S21 labels are empty and every S11 label holds the
\* text of the S11 sample at location.
C7_MismatchWithholdsS21 ==
    (/\ lastOp = "updateLabels"
     /\ location # -1
     /\ Len(args[1]) # Len(args[2]))
    => /\ \A k \in S21Keys : label[k] = NoText
       /\ \A k \in S11Keys : label[k] = S11Text(k, args[1][location + 1])

\* C7 as amended: updateLabels of a resolved marker with sweeps of unequal
\* length leaves the S21 labels as they were (empty when resetLabels was
\* the call before) and gives every S11 label the text of the S11 sample at
\* location.
C7_MismatchKeepsS21 ==
    [][(/\ lastOp' = "updateLabels"
        /\ location # -1
        /\ Len(args'[1]) # Len(args'[2]))
       => /\ raised' = "none"
          /\ \A k \in S21Keys : label'[k] = label[k]
          /\ lastOp = "resetLabels" => \A k \in S21Keys : label'[k] = NoText
          /\ \A k \in S11Keys :
                /\ label'[k] = S11Text(k, args'[1][location + 1])
                /\ label'[k] # NoText]_vars

\* C7 witness: updateLabels has run on a resolved marker with sweeps of
\* unequal length, and an S21 label holds a text of an earlier update.
C7_Witness ==
    /\ lastOp = "updateLabels"
    /\ location # -1
    /\ Len(args[1]) # Len(args[2])
    /\ label["s21gain"] # NoText
    /\ label["vswr"] = S11Text("vswr", data[location + 1])

\* C8: setFieldSelection leaves the frequency, the location, the neighbour
\* frequencies and the labels as they were, emits nothing, and sets the
\* field selection to the list it was handed.
C8_FieldSelectionFrame ==
    [][lastOp' = "setFieldSelection"
       => /\ frequency' = frequency
          /\ location' = location
          /\ nextFrequency' = nextFrequency
          /\ previousFrequency' = previousFrequency
          /\ label' = label
          /\ updated' = <<>>
          /\ fieldSelection' = args'[1]]_vars

\* C8 witness: setFieldSelection has run on a resolved marker with labels.
C8_Witness ==
    /\ lastOp = "setFieldSelection"
    /\ fieldSelection = default_field_names
    /\ location # -1
    /\ frequency # 0
    /\ label["vswr"] # NoText

\* C9 as claimed: when the target is as far from a sample as from the next,
\* findLocation ends at the earlier of the two.
C9_TieEarliest ==
    lastOp = "findLocation"
    => \A i \in 1..Len(data) :
          Tie(frequency, data, i) => location = i - 1

\* C9 as amended: when the target is as far from a sample as from the next,
\* findLocation ends at the later of the two.
C9_TieLatest ==
    lastOp = "findLocation"
    => \A i \in 1..Len(data) :
          Tie(frequency, data, i) => location = i

\* C9 witness: findLocation has run with a target half way between two
\* samples.
C9_Witness ==
    /\ lastOp = "findLocation"
    /\ \E i \in 1..Len(data) : Tie(frequency, data, i) /\ location = i

\* C10: after findLocation resolved to index k of a sweep of at least two
\* samples, nextFrequency is the frequency of sample k+1 (-1 for the last
\* k) and previousFrequency that of sample k-1 (-1 for k = 0); after
\* findLocation ended unresolved both are -1.
C10_NeighbourFrequencies ==
    lastOp = "findLocation"
    => /\ (location # -1 /\ Len(data) >= 2)
          => /\ nextFrequency =
                   (IF location + 1 < Len(data)
                    THEN data[location + 2].freq ELSE -1)
             /\ previousFrequency =
                   (IF location >= 1 THEN data[location].freq ELSE -1)
       /\ location = -1
          => (nextFrequency = -1 /\ previousFrequency = -1)

\* C11: after updateField, defaultButtonClick or cancelButtonClick the
\* handler has not raised and the example marker's field selection is the
\* window's currentFieldSelection, which is default_field_names() after
\* Defaults and the saved selection after Cancel.
C11_SelectionFollowsWindow ==
    lastOp \in {"updateField", "defaultButtonClick", "cancelButtonClick"}
    => /\ raised = "none"
       /\ fieldSelection = currentFieldSelection
       /\ lastOp = "defaultButtonClick"
          => currentFieldSelection = default_field_names
       /\ lastOp = "cancelButtonClick"
          => currentFieldSelection = savedFieldSelection

====
